---- MODULE Spec2Model ----
(***************************************************************************)
(* Model of muon/_atac/fragments.py: the connection manager               *)
(* (locate_fragments), the region pileup accumulator (_region_pileup),    *)
(* and the operations that drive it (region_pileup, _tss_pileup,          *)
(* count_fragments_features, fetch_regions_to_df).                        *)
(*                                                                         *)
(* The indexed fragment store (pysam.TabixFile) is an external            *)
(* collaborator.  It is modelled as a position-sorted list of BED         *)
(* records: fetch returns the records overlapping a half-open interval,   *)
(* raises ValueError for a contig that is not in the index, and may       *)
(* raise an I/O error for a contig whose block cannot be read.            *)
(***************************************************************************)
EXTENDS Integers, Sequences, FiniteSets, TLC

VARIABLES
    pc,      \* "idle" (locate session), "call" (an operation is about to run), "done"
    store,   \* the fragments file behind every connection
    args,    \* the arguments of the pending / last top-level call
    uns,     \* adata.uns: the "files" map and its "fragments" entry
    conns,   \* every connection opened so far, in order of opening
    lastOk,  \* path of the most recent successful open made by locate_fragments
    last     \* outcome of the last top-level call

vars == <<pc, store, args, uns, conns, lastOk, last>>

-----------------------------------------------------------------------------
(* Bounds *)

MaxRecs == 3     \* records in the fragments file
MaxFeat == 2     \* rows of a feature table
MaxPos == 3      \* largest coordinate passed to region_pileup
MaxConns == 3    \* connections opened in one locate_fragments session

-----------------------------------------------------------------------------
(* Values *)

None == "None"

Paths == {"p1", "p2"}
Chroms == {"chr1", "chr2", "chrX"}
Exts == {0, 1}

\* adata.obs.index of the matrix
ObsIndex == <<"A", "B">>
\* `cells` arguments of region_pileup
CellLists == {<<"A", "B">>, <<"B">>}

NoErr == [type |-> "none", msg |-> "none"]
Exc(type, msg) == [type |-> type, msg |-> msg]

Max(a, b) == IF a >= b THEN a ELSE b
Min(a, b) == IF a <= b THEN a ELSE b

RECURSIVE SumSeq(_)
SumSeq(s) == IF s = <<>> THEN 0 ELSE Head(s) + SumSeq(Tail(s))

RECURSIVE Concat(_)
Concat(ss) == IF ss = <<>> THEN <<>> ELSE Head(ss) \o Concat(Tail(ss))

Range(s) == {s[i] : i \in 1..Len(s)}

-----------------------------------------------------------------------------
(* The fragments file: BED records  contig start end name score *)

Rec(c, s, e, n, k) == [contig |-> c, start |-> s, end |-> e, name |-> n, score |-> k]

\* Candidate records, in file order (sorted by contig, start, end).
RecordPool ==
    << Rec("chr1", 0, 1, "B", 2),
       Rec("chr1", 0, 2, "A", 1),
       Rec("chr1", 1, 3, "A", 2),
       Rec("chr1", 1, 4, "B", 1),
       Rec("chr1", 2, 3, "Z", 2),
       Rec("chr1", 3, 4, "A", 1),
       Rec("chr2", 0, 1, "B", 2),
       Rec("chr2", 1, 3, "A", 1) >>

RECURSIVE PickRecs(_, _)
PickRecs(i, S) ==
    IF i > Len(RecordPool) THEN <<>>
    ELSE (IF i \in S THEN <<RecordPool[i]>> ELSE <<>>) \o PickRecs(i + 1, S)

\* A file holds at most MaxRecs records; its index knows the contigs that
\* have records; reading the chr2 block may fail with an I/O error.
Stores ==
    { [recs |-> PickRecs(1, S),
       contigs |-> {RecordPool[i].contig : i \in S},
       ioFail |-> bad] :
        <<S, bad>> \in { sb \in (SUBSET (1..Len(RecordPool))) \X {{}, {"chr2"}} :
                            /\ Cardinality(sb[1]) <= MaxRecs
                            /\ sb[2] \subseteq {RecordPool[i].contig : i \in sb[1]} } }

Overlaps(r, chromosome, start, end) ==
    r.contig = chromosome /\ r.start < end /\ r.end > start

\* fragments.fetch(chromosome, start, end)
Fetch(st, chromosome, start, end) ==
    IF chromosome \notin st.contigs
    THEN [err |-> Exc("ValueError", "could not create iterator for region"), recs |-> <<>>]
    ELSE IF chromosome \in st.ioFail
    THEN [err |-> Exc("OSError", "could not read block"), recs |-> <<>>]
    ELSE [err |-> NoErr,
          recs |-> SelectSeq(st.recs, LAMBDA r : Overlaps(r, chromosome, start, end))]

-----------------------------------------------------------------------------
(* Connections *)

\* open_fragment_connection(fragment_path): pysam.TabixFile(...) raises when
\* the file or its index cannot be opened.
OpenFragmentConnection(cs, path, openOk, by) ==
    IF openOk
    THEN [err |-> NoErr,
          conns |-> Append(cs, [path |-> path, open |-> TRUE, by |-> by]),
          frag |-> Len(cs) + 1]
    ELSE [err |-> Exc("OSError", "could not open"), conns |-> cs, frag |-> 0]

\* frag.close()
Close(cs, frag) == [cs EXCEPT ![frag].open = FALSE]

-----------------------------------------------------------------------------
(* locate_fragments *)

NoFiles == [hasFiles |-> FALSE, fragments |-> None]
EmptyFiles == [hasFiles |-> TRUE, fragments |-> None]
Located(p) == [hasFiles |-> TRUE, fragments |-> p]

\* a matrix may come with no "files" map, an empty one, or a stored path
UnsStates == {NoFiles, EmptyFiles} \cup {Located(p) : p \in Paths}

\* lines 73-79: the path to open
ResolvePath(u, fragments) ==
    IF fragments # None THEN [err |-> NoErr, path |-> fragments]
    ELSE IF ~u.hasFiles THEN [err |-> Exc("KeyError", "files"), path |-> None]
    ELSE IF u.fragments # None THEN [err |-> NoErr, path |-> u.fragments]
    ELSE [err |-> Exc("ValueError", "No filepath found"), path |-> None]

\* a misplaced else: the entry is written only when the map already exists
PersistPathElse(u, fragments) ==
    IF ~u.hasFiles THEN EmptyFiles ELSE Located(fragments)

\* lines 84-86: adata.uns["files"]["fragments"] = fragments
PersistPath(u, fragments) == Located(fragments)

\* closes the handle even when it is handed to the caller
CloseInFinallyAlways(frag, return_fragments) == frag # 0

\* line 95: frag is not None and not return_fragments
CloseInFinally(frag, return_fragments) == frag # 0 /\ ~return_fragments

\* line 91-92: except Exception as e: print(e)
ExceptPrint(exc) == [raised |-> NoErr, printed |-> exc]

LocateFragments(u, cs, fragments, return_fragments, openOk) ==
    LET r == ResolvePath(u, fragments)
        o == OpenFragmentConnection(cs, r.path, openOk, "locate_fragments")
        failed(exc) ==
            [uns |-> u, conns |-> cs, ret |-> 0, path |-> None,
             raised |-> ExceptPrint(exc).raised, printed |-> ExceptPrint(exc).printed]
    IN  IF r.err # NoErr THEN failed(r.err)
        ELSE IF o.err # NoErr THEN failed(o.err)
        ELSE [uns |-> PersistPath(u, r.path),
              conns |-> IF CloseInFinally(o.frag, return_fragments)
                        THEN Close(o.conns, o.frag) ELSE o.conns,
              ret |-> IF return_fragments THEN o.frag ELSE 0,
              path |-> r.path,
              raised |-> NoErr, printed |-> NoErr]

-----------------------------------------------------------------------------
(* Specification of a locate_fragments session on one matrix *)

NoArgs == [op |-> "none"]
NoStore == [recs |-> <<>>, contigs |-> {}, ioFail |-> {}]

InitLocate ==
    /\ pc = "idle"
    /\ store = NoStore
    /\ args = NoArgs
    /\ uns \in UnsStates
    /\ conns = <<>>
    /\ lastOk = None
    /\ last = [op |-> "none"]

LocateFragmentsCall ==
    \E fragments \in Paths \cup {None}, return_fragments \in BOOLEAN, openOk \in BOOLEAN :
        LET res == LocateFragments(uns, conns, fragments, return_fragments, openOk) IN
        /\ pc = "idle"
        /\ Len(conns) < MaxConns
        /\ uns' = res.uns
        /\ conns' = res.conns
        /\ lastOk' = IF res.path # None THEN res.path ELSE lastOk
        /\ args' = [op |-> "locate_fragments", fragments |-> fragments,
                    return_fragments |-> return_fragments]
        /\ last' = [op |-> "locate_fragments", ret |-> res.ret, raised |-> res.raised,
                    printed |-> res.printed, path |-> res.path,
                    unsBefore |-> uns, nBefore |-> Len(conns)]
        /\ UNCHANGED <<pc, store>>

NextLocate == LocateFragmentsCall

SpecLocate == InitLocate /\ [][NextLocate]_vars

-----------------------------------------------------------------------------
(* Matrices and the cell index *)

\* np.zeros((n, w), dtype=int)
Zeros(n, w) == [n |-> n, w |-> w, v |-> [r \in 0..(n - 1) |-> [c \in 0..(w - 1) |-> 0]]]

NoMatrix == Zeros(0, 0)

\* d = {k: v for k, v in zip(cells, range(n))}: a repeated key keeps its last row
CellIndex(cells) ==
    [k \in Range(cells) |->
        (CHOOSE i \in 1..Len(cells) :
            cells[i] = k /\ \A j \in 1..Len(cells) : cells[j] = k => j <= i) - 1]

\* Python slice a:b over an axis of length w, as the set of selected columns
SliceBound(a, w) == IF a < 0 THEN Max(a + w, 0) ELSE Min(a, w)
SliceCols(a, b, w) == SliceBound(a, w)..(SliceBound(b, w) - 1)

-----------------------------------------------------------------------------
(* _region_pileup *)

\* lines 186-193: one fetched record
AddFragment(acc, d, fr, start) ==
    IF fr.name \notin DOMAIN d THEN acc      \* KeyError: except: pass
    ELSE LET rowind == d[fr.name]
             score == fr.score
             n_features == acc.mx.w
             colind_start == Max(fr.start - start, 0)
             colind_end == Min(fr.end - start, n_features)
             cols == SliceCols(colind_start, colind_end, n_features)
         IN  [mx |-> [acc.mx EXCEPT !.v[rowind] =
                        [c \in 0..(n_features - 1) |->
                            IF c \in cols THEN @[c] + score ELSE @[c]]],
              written |-> acc.written \cup ({rowind} \X cols)]

RECURSIVE PileupLoop(_, _, _, _)
PileupLoop(acc, recs, d, start) ==
    IF recs = <<>> THEN acc
    ELSE PileupLoop(AddFragment(acc, d, Head(recs), start), Tail(recs), d, start)

\* _region_pileup(mx, fragments, d, chromosome, start, end); `written` records
\* the cells of mx the call assigned to
RegionPileupAcc(acc, st, d, chromosome, start, end) ==
    LET f == Fetch(st, chromosome, start, end)
        r == PileupLoop(acc, f.recs, d, start)
    IN  IF f.err # NoErr
        THEN [err |-> f.err, mx |-> acc.mx, written |-> acc.written]
        ELSE [err |-> NoErr, mx |-> r.mx, written |-> r.written]

-----------------------------------------------------------------------------
(* Outcome of a top-level call *)

Outcome(op, err, hasMx, mx, written, fetched, table, before) ==
    [op |-> op, raised |-> err, hasMx |-> hasMx, mx |-> mx, written |-> written,
     fetched |-> fetched, table |-> table, nBefore |-> before]

Raise(op, err, fetched, before) ==
    Outcome(op, err, FALSE, NoMatrix, {}, fetched, <<>>, before)

-----------------------------------------------------------------------------
(* region_pileup *)

\* the range check rejects the empty interval as well
RangeErrorOrEmpty(start, end) == end - start <= 0

\* line 225: if n_features < 0
RangeError(start, end) == end - start < 0

\* region_pileup(fragments, cells, chromosome, start, end); a.src = "path"
\* passes a path, a.src = "conn" passes the caller's open connection conns[1]
RegionPileup(st, a, u, cs) ==
    LET op == "region_pileup"
        o == IF a.src = "path"
             THEN OpenFragmentConnection(cs, a.path, a.openOk, op)
             ELSE [err |-> NoErr, conns |-> cs, frag |-> 1]
        n == Len(a.cells)
        n_features == a.end - a.start
        d == CellIndex(a.cells)
        r == RegionPileupAcc([mx |-> Zeros(n, n_features), written |-> {}],
                             st, d, a.chromosome, a.start, a.end)
        out(cs2, res) == [uns |-> u, conns |-> cs2, path |-> None, res |-> res]
    IN  IF o.err # NoErr THEN out(cs, Raise(op, o.err, <<>>, Len(cs)))
        ELSE IF RangeError(a.start, a.end)
        THEN out(o.conns, Raise(op, Exc("ValueError", "Start must be smaller than end"),
                                <<>>, Len(cs)))
        ELSE IF a.chromosome \notin st.contigs
        THEN out(o.conns, Raise(op, Exc("ValueError", "Chromosome is not present"),
                                <<>>, Len(cs)))
        ELSE IF r.err # NoErr
        THEN out(o.conns, Raise(op, r.err, <<<<a.chromosome, a.start, a.end>>>>, Len(cs)))
        ELSE out(Close(o.conns, o.frag),
                 Outcome(op, NoErr, TRUE, r.mx, r.written,
                         <<<<a.chromosome, a.start, a.end>>>>, <<>>, Len(cs)))

-----------------------------------------------------------------------------
(* _tss_pileup *)

\* lines 299-304: the loop over the filtered features
RECURSIVE TssLoop(_, _, _, _, _, _, _)
TssLoop(acc, fetched, feats, st, d, extend_upstream, extend_downstream) ==
    IF feats = <<>>
    THEN [err |-> NoErr, mx |-> acc.mx, written |-> acc.written, fetched |-> fetched]
    ELSE LET f == Head(feats)
             tss_start == f.Start - extend_upstream
             tss_end == f.Start + extend_downstream
             r == RegionPileupAcc(acc, st, d, f.Chromosome, tss_start, tss_end)
             fetched2 == Append(fetched, <<f.Chromosome, tss_start, tss_end>>)
         IN  IF r.err # NoErr
             THEN [err |-> r.err, mx |-> r.mx, written |-> r.written, fetched |-> fetched2]
             ELSE TssLoop([mx |-> r.mx, written |-> r.written], fetched2, Tail(feats),
                          st, d, extend_upstream, extend_downstream)

\* line 291: features[features.Chromosome.isin(chromosomes)]
FilterKnown(features, chromosomes) ==
    SelectSeq(features, LAMBDA f : f.Chromosome \in chromosomes)

TssPileup(st, a, u, cs) ==
    LET op == "tss_pileup"
        n == Len(ObsIndex)
        n_features == a.extend_downstream + a.extend_upstream + 1
        d == CellIndex(ObsIndex)
        loc == LocateFragments(u, cs, None, TRUE, a.openOk)
        features == FilterKnown(a.features, st.contigs)
        r == TssLoop([mx |-> Zeros(n, n_features), written |-> {}], <<>>, features,
                     st, d, a.extend_upstream, a.extend_downstream)
        out(u2, cs2, res) == [uns |-> u2, conns |-> cs2, path |-> loc.path, res |-> res]
    IN  IF ~u.hasFiles \/ u.fragments = None
        THEN [uns |-> u, conns |-> cs, path |-> None,
              res |-> Raise(op, Exc("KeyError", "There is no fragments file located yet"),
                            <<>>, Len(cs))]
        ELSE IF loc.ret = 0     \* fragments is None: None.contigs
        THEN out(loc.uns, loc.conns,
                 Raise(op, Exc("AttributeError", "contigs"), <<>>, Len(cs)))
        ELSE IF r.err # NoErr
        THEN out(loc.uns, loc.conns, Raise(op, r.err, r.fetched, Len(cs)))
        ELSE out(loc.uns, Close(loc.conns, loc.ret),
                 Outcome(op, NoErr, TRUE, r.mx, r.written, r.fetched, <<>>, Len(cs)))

-----------------------------------------------------------------------------
(* count_fragments_features *)

\* lines 158-163: mx.rows[i].append(ind); mx.data[i].append(int(fr.score))
RECURSIVE AppendFragments(_, _, _)
AppendFragments(row, recs, d) ==
    IF recs = <<>> THEN row
    ELSE LET fr == Head(recs) IN
         AppendFragments(
            IF fr.name \notin DOMAIN d THEN row      \* KeyError: except: pass
            ELSE [rows |-> Append(row.rows, d[fr.name]),
                  data |-> Append(row.data, fr.score)],
            Tail(recs), d)

\* the extension is applied with the wrong sign
FeatureIntervalInward(f, extend_upstream, extend_downstream) ==
    <<f.Chromosome, f.Start + extend_upstream, f.End - extend_downstream>>

\* lines 155-157 / 353: the interval fetched for a feature
FeatureInterval(f, extend_upstream, extend_downstream) ==
    <<f.Chromosome, f.Start - extend_upstream, f.End + extend_downstream>>

\* lines 153-163: the loop over the features
RECURSIVE CountLoop(_, _, _, _, _, _, _)
CountLoop(lil, fetched, feats, st, d, extend_upstream, extend_downstream) ==
    IF feats = <<>> THEN [err |-> NoErr, lil |-> lil, fetched |-> fetched]
    ELSE LET iv == FeatureInterval(Head(feats), extend_upstream, extend_downstream)
             fr == Fetch(st, iv[1], iv[2], iv[3])
             row == AppendFragments([rows |-> <<>>, data |-> <<>>], fr.recs, d)
         IN  IF fr.err # NoErr
             THEN [err |-> fr.err, lil |-> lil, fetched |-> Append(fetched, iv)]
             ELSE CountLoop(Append(lil, row), Append(fetched, iv), Tail(feats),
                            st, d, extend_upstream, extend_downstream)

\* value of entry k of a lil row when it belongs to column c, else 0
EntryFor(row, c) ==
    [k \in 1..Len(row.rows) |-> IF row.rows[k] = c THEN row.data[k] ELSE 0]

\* line 166: mx.tocsr().transpose(); entries appended to the same
\* (feature, cell) position are duplicates of one CSR entry and add up
ToCellByFeature(lil, n) ==
    [n |-> n, w |-> Len(lil),
     v |-> [c \in 0..(n - 1) |->
              [i \in 0..(Len(lil) - 1) |-> SumSeq(EntryFor(lil[i + 1], c))]]]

CountFragmentsFeatures(st, a, u, cs) ==
    LET op == "count_fragments_features"
        n == Len(ObsIndex)
        d == CellIndex(ObsIndex)
        loc == LocateFragments(u, cs, None, TRUE, a.openOk)
        r == CountLoop(<<>>, <<>>, a.features, st, d,
                       a.extend_upstream, a.extend_downstream)
        out(cs2, res) == [uns |-> loc.uns, conns |-> cs2, path |-> loc.path, res |-> res]
    IN  IF ~a.hasFeatures     \* features is None and data is no MuData with 'rna'
        THEN [uns |-> u, conns |-> cs, path |-> None,
              res |-> Raise(op, Exc("ValueError", "Argument features is required"),
                            <<>>, Len(cs))]
        ELSE IF loc.ret = 0   \* fragments is None: None.fetch, then None.close in finally
        THEN out(loc.conns, Raise(op, Exc("AttributeError", "close"), <<>>, Len(cs)))
        ELSE IF r.err # NoErr  \* logged, re-raised; finally closes
        THEN out(Close(loc.conns, loc.ret), Raise(op, r.err, r.fetched, Len(cs)))
        ELSE out(Close(loc.conns, loc.ret),
                 Outcome(op, NoErr, TRUE, ToCellByFeature(r.lil, n), {}, r.fetched,
                         <<>>, Len(cs)))

-----------------------------------------------------------------------------
(* fetch_regions_to_df *)

\* int(x / 2) for an integer x: true division, then truncation toward zero
TruncHalf(x) == IF x >= 0 THEN x \div 2 ELSE -((-x) \div 2)

\* line 362: int(f.Start + (f.End - f.Start) / 2)
Middle(f) == TruncHalf(2 * f.Start + (f.End - f.Start))

Label(chrom, start, end) == chrom \o "_" \o ToString(start) \o "_" \o ToString(end)

\* the rows of one feature, before the Feature column is set
Row(x, shift) ==
    [Chromosome |-> x.contig, Start |-> x.start - shift, End |-> x.end - shift,
     Cell |-> x.name, Score |-> x.score]

Tag(row, feature) ==
    [Chromosome |-> row.Chromosome, Start |-> row.Start, End |-> row.End,
     Cell |-> row.Cell, Score |-> row.Score, Feature |-> feature]

\* the label is built from the fetched (extended) interval
FeatureFrameExtended(f, recs, a) ==
    LET shift == IF a.relative_coordinates THEN Middle(f) ELSE 0
        iv == FeatureInterval(f, a.extend_upstream, a.extend_downstream)
    IN  [k \in 1..Len(recs) |-> Tag(Row(recs[k], shift), Label(iv[1], iv[2], iv[3]))]

\* lines 354-364: the frame of one feature
FeatureFrame(f, recs, a) ==
    LET shift == IF a.relative_coordinates THEN Middle(f) ELSE 0
    IN  [k \in 1..Len(recs) |->
            Tag(Row(recs[k], shift), Label(f.Chromosome, f.Start, f.End))]

\* the handler names another exception type
CatchesKeyError(exc) == exc.type = "KeyError"

\* line 367: except ValueError
CatchesValueError(exc) == exc.type = "ValueError"

\* lines 348-371: the loop over the features
RECURSIVE FetchLoop(_, _, _, _, _)
FetchLoop(dfs, fetched, feats, st, a) ==
    IF feats = <<>> THEN [err |-> NoErr, dfs |-> dfs, fetched |-> fetched]
    ELSE LET f == Head(feats)
             iv == FeatureInterval(f, a.extend_upstream, a.extend_downstream)
             fr == Fetch(st, iv[1], iv[2], iv[3])
             df == FeatureFrame(f, fr.recs, a)
             fetched2 == Append(fetched, iv)
         IN  IF fr.err # NoErr
             THEN IF CatchesValueError(fr.err)
                  THEN FetchLoop(dfs, fetched2, Tail(feats), st, a)   \* Skipping this region...
                  ELSE [err |-> fr.err, dfs |-> dfs, fetched |-> fetched2]
             ELSE FetchLoop(IF Len(df) # 0 THEN Append(dfs, df) ELSE dfs,
                            fetched2, Tail(feats), st, a)

FetchRegionsToDf(st, a, u, cs) ==
    LET op == "fetch_regions_to_df"
        o == OpenFragmentConnection(cs, a.path, a.openOk, op)
        r == FetchLoop(<<>>, <<>>, a.features, st, a)
        out(cs2, res) == [uns |-> u, conns |-> cs2, path |-> None, res |-> res]
    IN  IF o.err # NoErr THEN out(cs, Raise(op, o.err, <<>>, Len(cs)))
        ELSE IF r.err # NoErr THEN out(o.conns, Raise(op, r.err, r.fetched, Len(cs)))
        ELSE IF r.dfs = <<>>     \* pd.concat([]): ValueError, after the close
        THEN out(Close(o.conns, o.frag),
                 Raise(op, Exc("ValueError", "No objects to concatenate"),
                       r.fetched, Len(cs)))
        ELSE out(Close(o.conns, o.frag),
                 Outcome(op, NoErr, FALSE, NoMatrix, {}, r.fetched, Concat(r.dfs), Len(cs)))

-----------------------------------------------------------------------------
(* Specifications of one top-level call on a given fragments file *)

Feat(c, s, e) == [Chromosome |-> c, Start |-> s, End |-> e]

FeaturePool ==
    { Feat("chr1", 1, 2), Feat("chr1", 0, 3), Feat("chr2", 1, 3), Feat("chrX", 1, 2) }

FeatureTables == UNION { [1..k -> FeaturePool] : k \in 0..MaxFeat }

Args(op, src, openOk, cells, chromosome, start, end, hasFeatures, features, up, down, rel) ==
    [op |-> op, src |-> src, path |-> "p1", openOk |-> openOk, cells |-> cells,
     chromosome |-> chromosome, start |-> start, end |-> end,
     hasFeatures |-> hasFeatures, features |-> features,
     extend_upstream |-> up, extend_downstream |-> down, relative_coordinates |-> rel]

RegionArgs ==
    { Args("region_pileup", so[1], so[2], cells, c, s, e, TRUE, <<>>, 0, 0, FALSE) :
        so \in {<<"path", TRUE>>, <<"path", FALSE>>, <<"conn", TRUE>>},
        cells \in CellLists, c \in Chroms, s \in 0..MaxPos, e \in 0..MaxPos }

TableArgs(op, hasFeaturesSet, relSet) ==
    { Args(op, "path", ok, ObsIndex, "chr1", 0, 0, hf, IF hf THEN t ELSE <<>>, up, down, rel) :
        ok \in BOOLEAN, hf \in hasFeaturesSet, t \in FeatureTables,
        up \in Exts, down \in Exts, rel \in relSet }

CallerConn == [path |-> "p1", open |-> TRUE, by |-> "caller"]

InitCall(argSet, unsSet) ==
    /\ pc = "call"
    /\ store \in Stores
    /\ args \in argSet
    /\ uns \in unsSet
    /\ conns = IF args.src = "conn" THEN <<CallerConn>> ELSE <<>>
    /\ lastOk = None
    /\ last = [op |-> "none"]

Call(op, r) ==
    /\ pc = "call"
    /\ args.op = op
    /\ uns' = r.uns
    /\ conns' = r.conns
    /\ lastOk' = IF r.path # None THEN r.path ELSE lastOk
    /\ last' = r.res
    /\ pc' = "done"
    /\ UNCHANGED <<store, args>>

RegionPileupCall == Call("region_pileup", RegionPileup(store, args, uns, conns))
TssPileupCall == Call("tss_pileup", TssPileup(store, args, uns, conns))
CountFragmentsFeaturesCall ==
    Call("count_fragments_features", CountFragmentsFeatures(store, args, uns, conns))
FetchRegionsToDfCall ==
    Call("fetch_regions_to_df", FetchRegionsToDf(store, args, uns, conns))

InitPileup ==
    \/ InitCall(RegionArgs, {NoFiles})
    \/ InitCall(TableArgs("tss_pileup", {TRUE}, {FALSE}), {NoFiles, EmptyFiles, Located("p1")})
NextPileup == RegionPileupCall \/ TssPileupCall
SpecPileup == InitPileup /\ [][NextPileup]_vars

InitCount ==
    InitCall(TableArgs("count_fragments_features", BOOLEAN, {FALSE}),
             {NoFiles, Located("p1")})
NextCount == CountFragmentsFeaturesCall
SpecCount == InitCount /\ [][NextCount]_vars

InitFetch == InitCall(TableArgs("fetch_regions_to_df", {TRUE}, BOOLEAN), {NoFiles})
NextFetch == FetchRegionsToDfCall
SpecFetch == InitFetch /\ [][NextFetch]_vars

-----------------------------------------------------------------------------
(* locate_fragments: properties *)

IsLocate == last.op = "locate_fragments"

\* Connections opened by the last call
OpenedByLast == (last.nBefore + 1)..Len(conns)

\* C2: a locate_fragments call that was not asked for a live connection
\* leaves no connection it opened open, on every exit path; a call that was
\* asked for one and whose open succeeded returns exactly the connection it
\* opened, still open; when the open failed nothing is returned or opened.
C2_LocateReleasesOrHandsOver ==
    IsLocate =>
        /\ ~args.return_fragments =>
              /\ last.ret = 0
              /\ \A i \in OpenedByLast : ~conns[i].open
        /\ (args.return_fragments /\ last.path # None) =>
              /\ OpenedByLast = {last.ret}
              /\ conns[last.ret].open
              /\ conns[last.ret].path = last.path
        /\ last.path = None => (last.ret = 0 /\ OpenedByLast = {})

\* C2 witness: a handed-over connection is open while an earlier call's
\* validation connection has been closed.
C2_Witness ==
    /\ IsLocate
    /\ args.return_fragments
    /\ last.ret # 0
    /\ conns[last.ret].open
    /\ \E i \in 1..last.nBefore : ~conns[i].open

\* C3 (as claimed): with no explicit path and no stored path, the call does
\* not return normally: an error reaches the caller.
C3_NoPathErrorReachesCaller ==
    (IsLocate /\ args.fragments = None /\ last.unsBefore.fragments = None)
        => last.raised # NoErr

\* C7: the stored path is the path of the most recent successful open; a
\* call that opened nothing leaves the metadata unchanged; a call without
\* a path that opens resolves to, and keeps, the stored path.
C7_StoredPathIsLastOpened ==
    /\ lastOk # None => uns = Located(lastOk)
    /\ IsLocate =>
          /\ last.path = None => uns = last.unsBefore
          /\ last.path # None => (lastOk = last.path /\ conns[Len(conns)].path = last.path)
          /\ (args.fragments = None /\ last.path # None) =>
                /\ last.path = last.unsBefore.fragments
                /\ uns.fragments = last.unsBefore.fragments
          /\ (args.fragments # None /\ last.path # None) => uns.fragments = args.fragments

\* C7 witness: locate_fragments(data, path) opened and stored a path, and
\* a later locate_fragments(data) resolved to the same path.
C7_Witness ==
    /\ IsLocate
    /\ args.fragments = None
    /\ last.path # None
    /\ last.nBefore >= 1
    /\ conns[last.nBefore].path = last.path
    /\ uns.fragments = last.path

-----------------------------------------------------------------------------
(* The operations on the fragments file: properties *)

Done(op) == pc = "done" /\ last.op = op

\* Connections opened by the call that just returned
OpenedByCall == (last.nBefore + 1)..Len(conns)

\* C1 (as claimed): when a top-level operation has returned, normally or
\* with an error, every connection it opened is closed.
C1_OpenedConnectionsClosedOnReturn ==
    pc = "done" => \A i \in OpenedByCall : ~conns[i].open

\* The claimed contribution of record r, fetched for interval iv, to (row, col):
\* its score on the columns [max(r.start - start, 0), min(r.end - start, end - start))
ClaimedContribution(r, iv, d, row, col) ==
    IF /\ Overlaps(r, iv[1], iv[2], iv[3])
       /\ r.name \in DOMAIN d
       /\ d[r.name] = row
       /\ col >= Max(r.start - iv[2], 0)
       /\ col < Min(r.end - iv[2], iv[3] - iv[2])
    THEN r.score ELSE 0

ClaimedCell(st, fetched, d, row, col) ==
    SumSeq([i \in 1..Len(fetched) |->
        SumSeq([j \in 1..Len(st.recs) |->
            ClaimedContribution(st.recs[j], fetched[i], d, row, col)])])

PileupCells == IF last.op = "region_pileup" THEN args.cells ELSE ObsIndex

\* C4 (as claimed): in every accumulator invocation for [start, end), also
\* those made by tss_pileup, a record of a known cell adds its score to
\* exactly the columns [max(r.start - start, 0), min(r.end - start, end - start))
\* of its cell's row, and no column outside [0, end - start) is written.
C4_ClippedAdditiveScatter ==
    (pc = "done" /\ last.op \in {"region_pileup", "tss_pileup"} /\ last.hasMx) =>
        /\ \A w \in last.written :
              \E i \in 1..Len(last.fetched) :
                  w[2] >= 0 /\ w[2] < last.fetched[i][3] - last.fetched[i][2]
        /\ \A row \in 0..(last.mx.n - 1), col \in 0..(last.mx.w - 1) :
              last.mx.v[row][col] =
                  ClaimedCell(store, last.fetched, CellIndex(PileupCells), row, col)

InvalidRangeError == Exc("ValueError", "Start must be smaller than end")
UnknownContigError == Exc("ValueError", "Chromosome is not present")

OverlapScore(st, iv, name) ==
    SumSeq([j \in 1..Len(st.recs) |->
        IF Overlaps(st.recs[j], iv[1], iv[2], iv[3]) /\ st.recs[j].name = name
        THEN st.recs[j].score ELSE 0])

\* C5: the matrix count_fragments_features returns has one row per cell of
\* the cell index and one column per feature, and entry (c, f) is the sum of
\* the scores of the store records of cell c overlapping
\* [f.Start - extend_upstream, f.End + extend_downstream) on f's chromosome;
\* records of cells outside the index appear in no entry.
C5_CountsAreOverlapSums ==
    (Done("count_fragments_features") /\ last.hasMx) =>
        /\ last.mx.n = Len(ObsIndex)
        /\ last.mx.w = Len(args.features)
        /\ \A c \in 1..Len(ObsIndex), i \in 1..Len(args.features) :
              last.mx.v[c - 1][i - 1] =
                  OverlapScore(store,
                               <<args.features[i].Chromosome,
                                 args.features[i].Start - args.extend_upstream,
                                 args.features[i].End + args.extend_downstream>>,
                               ObsIndex[c])

\* C5 witness: with an extended feature, a returned entry is the sum of two
\* overlapping records of one cell while a record of a cell outside the
\* index overlaps the same feature.
C5_Witness ==
    /\ Done("count_fragments_features")
    /\ last.hasMx
    /\ args.extend_upstream + args.extend_downstream > 0
    /\ \E i \in 1..Len(args.features), j \in 1..Len(store.recs) :
          /\ store.recs[j].name \notin Range(ObsIndex)
          /\ Overlaps(store.recs[j], args.features[i].Chromosome,
                      args.features[i].Start - args.extend_upstream,
                      args.features[i].End + args.extend_downstream)
    /\ \E c \in 1..Len(ObsIndex), i \in 1..Len(args.features) :
          /\ last.mx.v[c - 1][i - 1] >= 2
          /\ Cardinality({ j \in 1..Len(store.recs) :
                /\ store.recs[j].name = ObsIndex[c]
                /\ Overlaps(store.recs[j], args.features[i].Chromosome,
                            args.features[i].Start - args.extend_upstream,
                            args.features[i].End + args.extend_downstream) }) >= 2

HasUnknownContigFeature ==
    \E i \in 1..Len(args.features) : args.features[i].Chromosome \notin store.contigs

\* C8 (as claimed): tss_pileup and count_fragments_features, on a located
\* and readable store, do not fail when some features lie on unknown
\* chromosomes: no fetch is issued for those features and a matrix is returned.
C8_UnknownContigFeaturesFiltered ==
    ( /\ pc = "done"
      /\ last.op \in {"tss_pileup", "count_fragments_features"}
      /\ args.hasFeatures /\ args.openOk /\ lastOk # None
      /\ store.ioFail = {}
      /\ HasUnknownContigFeature ) =>
        /\ last.raised = NoErr
        /\ last.hasMx
        /\ \A k \in 1..Len(last.fetched) : last.fetched[k][1] \in store.contigs

-----------------------------------------------------------------------------
(* fetch_regions_to_df: properties *)

FetchSucceeds(st, f) == f.Chromosome \in st.contigs \ st.ioFail

\* rows a feature is expected to emit, without the Feature column
ExpectedRows(st, a, f) ==
    LET R == SelectSeq(st.recs, LAMBDA r :
                 Overlaps(r, f.Chromosome, f.Start - a.extend_upstream,
                          f.End + a.extend_downstream))
        shift == IF a.relative_coordinates THEN Middle(f) ELSE 0
    IN  IF FetchSucceeds(st, f) THEN [k \in 1..Len(R) |-> Row(R[k], shift)] ELSE <<>>

ExpectedTable(st, a) ==
    Concat([i \in 1..Len(a.features) |-> ExpectedRows(st, a, a.features[i])])

ExpectedLabels(st, a, lab(_)) ==
    Concat([i \in 1..Len(a.features) |->
        [k \in 1..Len(ExpectedRows(st, a, a.features[i])) |-> lab(a.features[i])]])

Untagged(table) ==
    [k \in 1..Len(table) |->
        [Chromosome |-> table[k].Chromosome, Start |-> table[k].Start,
         End |-> table[k].End, Cell |-> table[k].Cell, Score |-> table[k].Score]]

EmptyResultError == Exc("ValueError", "No objects to concatenate")

FetchDone == Done("fetch_regions_to_df") /\ args.openOk

\* C9 (as claimed): no failure of a per-feature fetch, of whatever kind,
\* aborts the extraction; when some feature yields rows the table returned is
\* the concatenation, in feature order, of the rows of the features whose
\* fetch succeeded.
C9_AnyFetchFailureIsSkipped ==
    FetchDone =>
        /\ last.raised \in {NoErr, EmptyResultError}
        /\ Len(last.fetched) = Len(args.features)
        /\ ExpectedTable(store, args) # <<>> =>
              (last.raised = NoErr /\ Untagged(last.table) = ExpectedTable(store, args))

FetchRaisesOther ==
    \E i \in 1..Len(args.features) : args.features[i].Chromosome \in store.ioFail

\* C9 (amended): a per-feature fetch that fails with a ValueError, as an
\* unknown chromosome does, never aborts the extraction: while no fetch
\* raises an error of another type every feature is fetched, and when some
\* feature yields rows the table returned is the concatenation, in feature
\* order, of the rows of the features whose fetch succeeded; a fetch that
\* raises an error of another type propagates it to the caller.
C9_ValueErrorFetchFailureIsSkipped ==
    FetchDone =>
        /\ ~FetchRaisesOther =>
              /\ last.raised \in {NoErr, EmptyResultError}
              /\ Len(last.fetched) = Len(args.features)
              /\ ExpectedTable(store, args) # <<>> =>
                    (last.raised = NoErr /\ Untagged(last.table) = ExpectedTable(store, args))
        /\ FetchRaisesOther => last.raised.type = "OSError"

\* C9 witness: the first feature lies on an unknown chromosome and the
\* table holds the rows of a later feature.
C9_Witness ==
    /\ FetchDone
    /\ Len(args.features) >= 2
    /\ args.features[1].Chromosome \notin store.contigs
    /\ last.raised = NoErr
    /\ last.table # <<>>

ExtendedLabel(f) ==
    Label(f.Chromosome, f.Start - args.extend_upstream, f.End + args.extend_downstream)

OwnLabel(f) == Label(f.Chromosome, f.Start, f.End)

\* C10 (as claimed): every row carries the label built from the
\* post-extension coordinates, the interval passed to the fetch.
C10_LabelFromExtendedInterval ==
    (FetchDone /\ last.raised = NoErr) =>
        [k \in 1..Len(last.table) |-> last.table[k].Feature]
            = ExpectedLabels(store, args, ExtendedLabel)

\* C10 (amended): every row carries the label "{chrom}_{start}_{end}" built
\* from the feature's own Start and End, before extension; it names the
\* interval passed to the fetch exactly when both extensions are 0.
C10_LabelFromFeatureCoordinates ==
    (FetchDone /\ last.raised = NoErr) =>
        /\ [k \in 1..Len(last.table) |-> last.table[k].Feature]
              = ExpectedLabels(store, args, OwnLabel)
        /\ (args.extend_upstream = 0 /\ args.extend_downstream = 0) =>
              [k \in 1..Len(last.table) |-> last.table[k].Feature]
                  = ExpectedLabels(store, args, ExtendedLabel)

\* C10 witness: rows were emitted for a feature fetched with an extension.
C10_Witness ==
    /\ FetchDone
    /\ last.raised = NoErr
    /\ last.table # <<>>
    /\ args.extend_upstream = 1
    /\ args.extend_downstream = 1

====
